---- MODULE Spec2Model ----
(***************************************************************************)
(* health-checker.go: the concurrent fetch / retry / aggregation engine of *)
(* main().  One goroutine per feed queries the article database up to ten  *)
(* times, sends a MagazineData on the buffered channel magDataCh, and the  *)
(* main goroutine, after wg.Wait(), closes the channel, gathers it into    *)
(* the map allMagData, ranges the map into keys, sorts keys with           *)
(* sort.SliceStable and writes the CSV rows with BuildCSV.                 *)
(*                                                                         *)
(* Go semantics the model relies on:                                       *)
(*   - an unrecovered panic in any goroutine runs that goroutine's         *)
(*     deferred calls (here wg.Done) and then ends the whole process; the  *)
(*     other goroutines keep running in between;                           *)
(*   - the iteration order of a map is unspecified;                        *)
(*   - a send on a full buffered channel blocks, a send on a closed        *)
(*     channel panics.                                                     *)
(* File-system calls other than os.Create in BuildCSV, and the e-mail      *)
(* transport after the CSV is built, are outside the model: the run is     *)
(* followed up to the point where the report rows are written.             *)
(*                                                                         *)
(* GrouperSpec follows the reminder step that precedes the fetch phase:    *)
(* on a Friday main calls PausedFeedReminder, which gets a token, queries  *)
(* the CRM for each paused feed, groups the feeds by owner e-mail and      *)
(* sends one mail per owner; main prints a returned error and goes on.     *)
(* The CRM's answers are taken to be well formed (totalSize is the number  *)
(* of records); the apostrophe escaping and URL encoding inside            *)
(* QuerySalesForce are not followed.                                       *)
(***************************************************************************)
EXTENDS Integers, Sequences, FiniteSets, TLC

\* ---------------------------------------------------------------- bounds
MaxFeeds == 2

NumMagazines == 2

\* ------------------------------------------------------- program constants
\* for j := 0; j < 10; j++
MaxAttempts == 10

\* ------------------------------------------------------------ input domains
MagazineNames == <<"A", "B", "C", "D">>

Magazines == {MagazineNames[k] : k \in 1..NumMagazines}

\* len(dbRes) of a decodable body; 12 and 7 order differently as text
RowCounts == {0, 7, 12}

StatusCodes == {199, 200, 299, 300, 500}

\* what http.Get followed by the JSON decode can observe
Responses ==
    {[err |-> TRUE, StatusCode |-> 0, decodes |-> FALSE, rows |-> 0]}
    \cup {[err |-> FALSE, StatusCode |-> s, decodes |-> FALSE, rows |-> 0] :
            s \in StatusCodes}
    \cup {[err |-> FALSE, StatusCode |-> s, decodes |-> TRUE, rows |-> n] :
            s \in StatusCodes, n \in RowCounts}

FeedLists ==
    UNION {[1..n -> [FeedName : Magazines]] : n \in 0..MaxFeeds}

VARIABLES
    feeds,       \* []Feed from the catalog
    alive,       \* the process has not been ended by a panic
    exitCause,   \* which panic ended it
    pc,          \* position of the main goroutine
    i,           \* dispatch loop variable
    wg,          \* sync.WaitGroup counter
    gpc,         \* position of each fetch goroutine
    j,           \* retry loop variable of each fetch goroutine
    magDataCh,   \* buffered channel contents
    chClosed,    \* close(magDataCh) has run
    allMagData,  \* map[string]int
    keys,        \* []string
    rows,        \* records written by BuildCSV after the header
    requests,    \* history: http.Get calls issued per feed
    sent,        \* history: channel sends per feed
    last,        \* history: kind of the last response each feed received
    firstIns,    \* history: magazines in order of first insertion in the map
    arrived,     \* history: every value sent on magDataCh, with its sender
    firstOk,     \* history: rows of each feed's first decodable 2xx response
    currentDay,  \* time.Now().Weekday()
    rpc,         \* position in main's reminder step and PausedFeedReminder
    sf_token,    \* access token GetToken returned
    tokenKind,   \* history: what the token endpoint answered
    idx,         \* position of the loop over feeds in PausedFeedReminder
    csmEmailFeed, \* map[string][]Feed
    ranged,      \* owners the send loop has taken from the map
    emails,      \* history: notifications handed to the mail service
    queries,     \* history: QuerySalesForce calls and their answers
    retErr       \* PausedFeedReminder returned an error

vars == <<feeds, alive, exitCause, pc, i, wg, gpc, j, magDataCh, chClosed,
          allMagData, keys, rows, requests, sent, last, firstIns, arrived,
          firstOk, currentDay, rpc, sf_token, tokenKind, idx, csmEmailFeed,
          ranged, emails, queries, retErr>>

\* the state of the fetch and aggregation phase, feeds apart
fetchVars == <<alive, exitCause, pc, i, wg, gpc, j, magDataCh, chClosed,
               allMagData, keys, rows, requests, sent, last, firstIns,
               arrived, firstOk>>

\* the state of the reminder step
grouperVars == <<currentDay, rpc, sf_token, tokenKind, idx, csmEmailFeed,
                 ranged, emails, queries, retErr>>

count == Len(feeds)

Units == 1..count

\* a buffer one slot short
CapShort == count - 1

\* make(chan MagazineData, count)
Cap == count

\* the status left unchecked
IsSuccessAnyStatus(res) == res.err = FALSE

\* err == nil && res.StatusCode/100 == 2
IsSuccess(res) == res.err = FALSE /\ res.StatusCode \div 100 = 2

\* a decode failure retried like a transient failure
OutcomeRetryDecode(res) ==
    IF IsSuccess(res) /\ res.decodes THEN "send" ELSE "retry"

\* the branch one loop iteration takes
Outcome(res) ==
    IF IsSuccess(res)
    THEN IF res.decodes THEN "send" ELSE "panic"
    ELSE "retry"

\* the break left out
LoopContinuesNoBreak(broke, jv) == jv + 1 < MaxAttempts

\* break after the send; otherwise j++ and the test j < 10
LoopContinues(broke, jv) == ~broke /\ jv + 1 < MaxAttempts

\* a barrier released one goroutine early
WaitReleasedEarly(w) == w <= 1

\* wg.Wait() returns when the counter is zero
WaitReleased(w) == w = 0

\* history only: what the counting service answered, independent of the code
Kind(res) ==
    IF res.err \/ res.StatusCode < 200 \/ res.StatusCode > 299 THEN "fail"
    ELSE IF res.decodes THEN "ok" ELSE "undecodable"

\* history only: no decodable 2xx response seen yet
NoRows == 0 - 1

EmptyMap == [k \in {} |-> 0]

\* counts of one magazine added up
MapSetSum(m, key, value) ==
    [k \in DOMAIN m \cup {key} |->
        IF k = key THEN (IF k \in DOMAIN m THEN m[k] + value ELSE value)
        ELSE m[k]]

\* allMagData[key] = value
MapSet(m, key, value) ==
    [k \in DOMAIN m \cup {key} |-> IF k = key THEN value ELSE m[k]]

Range(s) == {s[k] : k \in 1..Len(s)}

\* the less function handed to sort.SliceStable
Less(m, a, b) == m[a] < m[b]

RECURSIVE InsertStable(_, _, _)
\* x goes before the first element it is less than, after its equals
InsertStable(s, x, m) ==
    IF s = << >> THEN <<x>>
    ELSE IF Less(m, x, s[Len(s)])
         THEN Append(InsertStable(SubSeq(s, 1, Len(s) - 1), x, m), s[Len(s)])
         ELSE Append(s, x)

\* the sort left out
SliceStableNoSort(s, m) == s

RECURSIVE SliceStable(_, _)
\* sort.SliceStable: sorted by less, equal elements keep their order
SliceStable(s, m) ==
    IF s = << >> THEN << >>
    ELSE InsertStable(SliceStable(SubSeq(s, 1, Len(s) - 1), m), s[Len(s)], m)

DigitChars == <<"0", "1", "2", "3", "4", "5", "6", "7", "8", "9">>

RECURSIVE ItoaNat(_)
ItoaNat(n) ==
    IF n < 10 THEN <<DigitChars[n + 1]>>
    ELSE Append(ItoaNat(n \div 10), DigitChars[(n % 10) + 1])

\* strconv.Itoa: the decimal text of n
Itoa(n) == IF n < 0 THEN <<"-">> \o ItoaNat(0 - n) ELSE ItoaNat(n)

\* the records BuildCSV writes after the header {"magazine", "articles"}
CSVRecords(m, ks) ==
    [k \in 1..Len(ks) |-> [magazine |-> ks[k], articles |-> Itoa(m[ks[k]])]]

\* the fetch phase before its dispatch loop
FetchInit ==
    /\ alive = TRUE
    /\ exitCause = "none"
    /\ pc = IF Len(feeds) = 0 THEN "wait" ELSE "dispatch"
    /\ i = 0
    /\ wg = 0
    /\ gpc = [u \in 1..Len(feeds) |-> "idle"]
    /\ j = [u \in 1..Len(feeds) |-> 0]
    /\ magDataCh = << >>
    /\ chClosed = FALSE
    /\ allMagData = EmptyMap
    /\ keys = << >>
    /\ rows = << >>
    /\ requests = [u \in 1..Len(feeds) |-> 0]
    /\ sent = [u \in 1..Len(feeds) |-> 0]
    /\ last = [u \in 1..Len(feeds) |-> "none"]
    /\ firstIns = << >>
    /\ arrived = << >>
    /\ firstOk = [u \in 1..Len(feeds) |-> NoRows]

\* a run on a day other than Friday: the reminder step did nothing
GrouperIdle ==
    /\ currentDay = 0
    /\ rpc = "fetch"
    /\ sf_token = ""
    /\ tokenKind = "none"
    /\ idx = 0
    /\ csmEmailFeed = EmptyMap
    /\ ranged = {}
    /\ emails = << >>
    /\ queries = << >>
    /\ retErr = FALSE

Init ==
    /\ feeds \in FeedLists
    /\ FetchInit
    /\ GrouperIdle

\* one iteration of the dispatch loop: wg.Add(1); go func(...)
Dispatch ==
    /\ alive /\ pc = "dispatch"
    /\ i < count
    /\ wg' = wg + 1
    /\ gpc' = [gpc EXCEPT ![i + 1] = "run"]
    /\ i' = i + 1
    /\ pc' = IF i + 1 < count THEN "dispatch" ELSE "wait"
    /\ UNCHANGED <<feeds, alive, exitCause, j, magDataCh, chClosed,
                   allMagData, keys, rows, requests, sent, last, firstIns>>
    /\ UNCHANGED <<arrived, firstOk>>
    /\ UNCHANGED grouperVars

\* one iteration of the retry loop of goroutine u
Fetch(u) ==
    /\ alive /\ gpc[u] = "run"
    /\ \E res \in Responses :
        LET o == Outcome(res)
            magData == [Magazine |-> feeds[u].FeedName,
                        IngestedArticles |-> res.rows]
        IN
        /\ requests' = [requests EXCEPT ![u] = @ + 1]
        /\ last' = [last EXCEPT ![u] = Kind(res)]
        /\ firstOk' = IF Kind(res) = "ok" /\ firstOk[u] = NoRows
                      THEN [firstOk EXCEPT ![u] = res.rows]
                      ELSE firstOk
        /\ IF o = "retry"
           THEN \* log, time.Sleep(time.Second), j++
                /\ j' = [j EXCEPT ![u] = @ + 1]
                /\ IF LoopContinues(FALSE, j[u])
                   THEN UNCHANGED <<gpc, wg>>
                   ELSE /\ gpc' = [gpc EXCEPT ![u] = "done"]
                        /\ wg' = wg - 1
                /\ UNCHANGED <<magDataCh, sent, arrived>>
           ELSE IF o = "panic" \/ chClosed
           THEN \* panic(err), or a send on a closed channel; defer wg.Done()
                /\ gpc' = [gpc EXCEPT ![u] = "panicked"]
                /\ wg' = wg - 1
                /\ UNCHANGED <<j, magDataCh, sent, arrived>>
           ELSE IF Len(magDataCh) >= Cap
           THEN \* the send blocks; nothing receives before wg.Wait() returns
                /\ gpc' = [gpc EXCEPT ![u] = "blocked"]
                /\ UNCHANGED <<j, wg, magDataCh, sent, arrived>>
           ELSE \* magDataCh <- magData; break
                /\ magDataCh' = Append(magDataCh, magData)
                /\ arrived' = Append(arrived, [unit |-> u, data |-> magData])
                /\ sent' = [sent EXCEPT ![u] = @ + 1]
                /\ IF LoopContinues(TRUE, j[u])
                   THEN /\ j' = [j EXCEPT ![u] = @ + 1]
                        /\ UNCHANGED <<gpc, wg>>
                   ELSE /\ gpc' = [gpc EXCEPT ![u] = "done"]
                        /\ wg' = wg - 1
                        /\ UNCHANGED j
    /\ UNCHANGED <<feeds, alive, exitCause, pc, i, chClosed, allMagData,
                   keys, rows, firstIns>>
    /\ UNCHANGED grouperVars

\* the runtime ends the process after the panicking goroutine has unwound
ProcessExit(u) ==
    /\ alive /\ gpc[u] = "panicked"
    /\ alive' = FALSE
    /\ exitCause' = "fetch panic"
    /\ UNCHANGED <<feeds, pc, i, wg, gpc, j, magDataCh, chClosed, allMagData,
                   keys, rows, requests, sent, last, firstIns>>
    /\ UNCHANGED <<arrived, firstOk>>
    /\ UNCHANGED grouperVars

\* wg.Wait(); close(magDataCh)
WaitAndClose ==
    /\ alive /\ pc = "wait"
    /\ WaitReleased(wg)
    /\ chClosed' = TRUE
    /\ pc' = "gather"
    /\ UNCHANGED <<feeds, alive, exitCause, i, wg, gpc, j, magDataCh,
                   allMagData, keys, rows, requests, sent, last, firstIns>>
    /\ UNCHANGED <<arrived, firstOk>>
    /\ UNCHANGED grouperVars

\* for chValue := range magDataCh: one received value
Gather ==
    /\ alive /\ pc = "gather"
    /\ Len(magDataCh) > 0
    /\ LET chValue == Head(magDataCh) IN
        /\ allMagData' =
              MapSet(allMagData, chValue.Magazine, chValue.IngestedArticles)
        /\ firstIns' = IF chValue.Magazine \in DOMAIN allMagData
                       THEN firstIns
                       ELSE Append(firstIns, chValue.Magazine)
    /\ magDataCh' = Tail(magDataCh)
    /\ UNCHANGED <<feeds, alive, exitCause, pc, i, wg, gpc, j, chClosed,
                   keys, rows, requests, sent, last>>
    /\ UNCHANGED <<arrived, firstOk>>
    /\ UNCHANGED grouperVars

\* the range ends on the closed, drained channel
GatherEnd ==
    /\ alive /\ pc = "gather"
    /\ Len(magDataCh) = 0 /\ chClosed
    /\ pc' = "keys"
    /\ UNCHANGED <<feeds, alive, exitCause, i, wg, gpc, j, magDataCh,
                   chClosed, allMagData, keys, rows, requests, sent, last,
                   firstIns>>
    /\ UNCHANGED <<arrived, firstOk>>
    /\ UNCHANGED grouperVars

\* for key := range allMagData: the map yields its keys in any order
RangeKeys ==
    /\ alive /\ pc = "keys"
    /\ \E key \in DOMAIN allMagData \ Range(keys) :
          keys' = Append(keys, key)
    /\ UNCHANGED <<feeds, alive, exitCause, pc, i, wg, gpc, j, magDataCh,
                   chClosed, allMagData, rows, requests, sent, last,
                   firstIns>>
    /\ UNCHANGED <<arrived, firstOk>>
    /\ UNCHANGED grouperVars

\* sort.SliceStable(keys, ...) once the range is over
SortKeys ==
    /\ alive /\ pc = "keys"
    /\ Range(keys) = DOMAIN allMagData
    /\ keys' = SliceStable(keys, allMagData)
    /\ pc' = "csv"
    /\ UNCHANGED <<feeds, alive, exitCause, i, wg, gpc, j, magDataCh,
                   chClosed, allMagData, rows, requests, sent, last,
                   firstIns>>
    /\ UNCHANGED <<arrived, firstOk>>
    /\ UNCHANGED grouperVars

\* BuildCSV(fileName, allMagData, keys) returns nil
BuildCSV ==
    /\ alive /\ pc = "csv"
    /\ rows' = CSVRecords(allMagData, keys)
    /\ pc' = "done"
    /\ UNCHANGED <<feeds, alive, exitCause, i, wg, gpc, j, magDataCh,
                   chClosed, allMagData, keys, requests, sent, last,
                   firstIns>>
    /\ UNCHANGED <<arrived, firstOk>>
    /\ UNCHANGED grouperVars

\* os.Create fails: BuildCSV returns the error and main panics
BuildCSVFail ==
    /\ alive /\ pc = "csv"
    /\ alive' = FALSE
    /\ exitCause' = "csv panic"
    /\ UNCHANGED <<feeds, pc, i, wg, gpc, j, magDataCh, chClosed, allMagData,
                   keys, rows, requests, sent, last, firstIns>>
    /\ UNCHANGED <<arrived, firstOk>>
    /\ UNCHANGED grouperVars

Next ==
    \/ Dispatch
    \/ \E u \in Units : Fetch(u)
    \/ \E u \in Units : ProcessExit(u)
    \/ WaitAndClose
    \/ Gather
    \/ GatherEnd
    \/ RangeKeys
    \/ SortKeys
    \/ BuildCSV
    \/ BuildCSVFail

Spec == Init /\ [][Next]_vars

\* every network call returns, every runnable goroutine is scheduled, and the
\* runtime does end a process whose goroutine panicked
FairSpec ==
    /\ Spec
    /\ WF_vars(Dispatch)
    /\ \A u \in 1..MaxFeeds : WF_vars(u \in Units /\ Fetch(u))
    /\ \A u \in 1..MaxFeeds : WF_vars(u \in Units /\ ProcessExit(u))
    /\ WF_vars(WaitAndClose)
    /\ WF_vars(Gather) /\ WF_vars(GatherEnd)
    /\ WF_vars(RangeKeys) /\ WF_vars(SortKeys)
    /\ WF_vars(BuildCSV \/ BuildCSVFail)

\* ------------------------------------------- the paused-feed reminder step
\* time.Friday
Friday == 5

Weekdays == 0..6

NYT == "The New York Times"

Publishers == {NYT, "Acme Press"}

\* distinct catalog entries carry distinct URLs
FeedUrls == <<"url1", "url2", "url3", "url4">>

\* owner e-mail addresses the CRM can answer with
Owners == {"csm1", "csm2"}

GrouperFeedLists ==
    UNION {{[k \in 1..n |-> [Publisher |-> f[k].Publisher,
                             FeedName |-> f[k].FeedName,
                             FeedUrl |-> FeedUrls[k],
                             PauseIngestion |-> f[k].PauseIngestion]] :
              f \in [1..n -> [Publisher : Publishers, FeedName : Magazines,
                              PauseIngestion : BOOLEAN]]} :
           n \in 0..MaxFeeds}

\* what the token endpoint can answer
TokenResponses ==
    {[err |-> TRUE, StatusCode |-> 0, decodes |-> FALSE, token |-> ""]}
    \cup {[err |-> FALSE, StatusCode |-> s, decodes |-> d, token |-> ""] :
            s \in {200, 401}, d \in BOOLEAN}
    \cup {[err |-> FALSE, StatusCode |-> 200, decodes |-> TRUE, token |-> "tok"]}

\* history only: a token was handed out or not
TokenKind(res) ==
    IF res.err = FALSE /\ res.StatusCode >= 200 /\ res.StatusCode <= 299
       /\ res.decodes /\ res.token # ""
    THEN "ok" ELSE "fail"

\* GetToken: the token and the error it returns
GetToken(res) ==
    IF res.err = FALSE /\ res.StatusCode \div 100 = 2
    THEN IF res.decodes
         THEN [token |-> res.token, err |-> FALSE]
         ELSE [token |-> "", err |-> TRUE]
    ELSE [token |-> "", err |-> res.err]

\* what QuerySalesForce can return: an error, or a record set whose
\* totalSize is the number of its records
QueryResults ==
    {[err |-> TRUE, TotalSize |-> 0, Records |-> << >>]}
    \cup {[err |-> FALSE, TotalSize |-> 0, Records |-> << >>]}
    \cup {[err |-> FALSE, TotalSize |-> 1, Records |-> <<[Email |-> e]>>] :
            e \in Owners}
    \cup {[err |-> FALSE, TotalSize |-> 2,
           Records |-> <<[Email |-> e], [Email |-> g]>>] :
            e \in Owners, g \in Owners}

\* every feed queried, paused or not
ShouldQueryAll(emailFeed) == TRUE

\* if emailFeed.PauseIngestion == true
ShouldQuery(emailFeed) == emailFeed.PauseIngestion = TRUE

\* the override left out
QueryMagNoOverride(emailFeed) == emailFeed.FeedName

\* queryMag: the feed's name, or the publisher's for The New York Times
QueryMag(emailFeed) ==
    IF emailFeed.Publisher = NYT THEN NYT ELSE emailFeed.FeedName

\* an ambiguous answer resolved to its first record
ResolutionFirstOfMany(totalSize) ==
    IF totalSize < 1 THEN "skip" ELSE "add"

\* TotalSize < 1: continue; TotalSize > 1: log and continue; else group
Resolution(totalSize) ==
    IF totalSize < 1 THEN "skip"
    ELSE IF totalSize > 1 THEN "skip"
    ELSE "add"

\* the group replaced instead of extended
GroupAppendOverwrite(m, email, emailFeed) ==
    [k \in DOMAIN m \cup {email} |-> IF k = email THEN <<emailFeed>> ELSE m[k]]

\* csmEmailFeed[email] = append(csmEmailFeed[email], emailFeed)
GroupAppend(m, email, emailFeed) ==
    [k \in DOMAIN m \cup {email} |->
        IF k = email
        THEN Append(IF email \in DOMAIN m THEN m[email] ELSE << >>, emailFeed)
        ELSE m[k]]

\* a body that names the first feed only
EmailBodyFirstOnly(emailFeeds) ==
    [k \in 1..1 |-> [FeedName |-> emailFeeds[k].FeedName,
                     Publisher |-> emailFeeds[k].Publisher,
                     FeedUrl |-> emailFeeds[k].FeedUrl]]

\* SendEmail: one paragraph per feed with its name, publisher and URL
EmailBody(emailFeeds) ==
    [k \in 1..Len(emailFeeds) |-> [FeedName |-> emailFeeds[k].FeedName,
                                   Publisher |-> emailFeeds[k].Publisher,
                                   FeedUrl |-> emailFeeds[k].FeedUrl]]

GrouperInit ==
    /\ feeds \in GrouperFeedLists
    /\ FetchInit
    /\ currentDay \in Weekdays
    /\ rpc = "start"
    /\ sf_token = ""
    /\ tokenKind = "none"
    /\ idx = 0
    /\ csmEmailFeed = EmptyMap
    /\ ranged = {}
    /\ emails = << >>
    /\ queries = << >>
    /\ retErr = FALSE

\* if currentDay == targetDay
CheckDay ==
    /\ rpc = "start"
    /\ rpc' = IF currentDay = Friday THEN "token" ELSE "fetch"
    /\ UNCHANGED <<currentDay, sf_token, tokenKind, idx, csmEmailFeed, ranged,
                   emails, queries, retErr>>
    /\ UNCHANGED <<feeds, fetchVars>>

\* sf_token, err := GetToken()
AcquireToken ==
    /\ rpc = "token"
    /\ \E res \in TokenResponses :
        LET r == GetToken(res) IN
        /\ tokenKind' = TokenKind(res)
        /\ IF r.err
           THEN /\ rpc' = "returned"
                /\ retErr' = TRUE
                /\ UNCHANGED <<sf_token, idx>>
           ELSE /\ sf_token' = r.token
                /\ idx' = 1
                /\ rpc' = IF count = 0 THEN "send" ELSE "loop"
                /\ UNCHANGED retErr
    /\ UNCHANGED <<currentDay, csmEmailFeed, ranged, emails, queries>>
    /\ UNCHANGED <<feeds, fetchVars>>

\* one iteration of for _, emailFeed := range feeds
ProcessFeed ==
    /\ rpc = "loop"
    /\ idx <= count
    /\ LET emailFeed == feeds[idx]
           continue == /\ idx' = idx + 1
                       /\ rpc' = IF idx + 1 > count THEN "send" ELSE "loop"
                       /\ UNCHANGED retErr
       IN
       IF ShouldQuery(emailFeed)
       THEN \E sfQueryRes \in QueryResults :
              /\ queries' = Append(queries,
                                   [feed |-> idx,
                                    token |-> sf_token,
                                    magazine |-> QueryMag(emailFeed),
                                    res |-> sfQueryRes])
              /\ IF sfQueryRes.err
                 THEN /\ rpc' = "returned"
                      /\ retErr' = TRUE
                      /\ UNCHANGED <<idx, csmEmailFeed>>
                 ELSE IF Resolution(sfQueryRes.TotalSize) = "skip"
                 THEN continue /\ UNCHANGED csmEmailFeed
                 ELSE /\ csmEmailFeed' =
                            GroupAppend(csmEmailFeed,
                                        sfQueryRes.Records[1].Email, emailFeed)
                      /\ continue
       ELSE continue /\ UNCHANGED <<queries, csmEmailFeed>>
    /\ UNCHANGED <<currentDay, sf_token, tokenKind, ranged, emails>>
    /\ UNCHANGED <<feeds, fetchVars>>

\* one iteration of for email := range csmEmailFeed: SendEmail
SendNext ==
    /\ rpc = "send"
    /\ \E email \in DOMAIN csmEmailFeed \ ranged :
        \E sendErr \in BOOLEAN :
          /\ ranged' = ranged \cup {email}
          /\ IF sendErr
             THEN /\ rpc' = "returned"
                  /\ retErr' = TRUE
                  /\ UNCHANGED emails
             ELSE /\ emails' = Append(emails,
                                      [to |-> email,
                                       body |-> EmailBody(csmEmailFeed[email])])
                  /\ UNCHANGED <<rpc, retErr>>
    /\ UNCHANGED <<currentDay, sf_token, tokenKind, idx, csmEmailFeed, queries>>
    /\ UNCHANGED <<feeds, fetchVars>>

\* the send loop is over: return nil
SendEnd ==
    /\ rpc = "send"
    /\ ranged = DOMAIN csmEmailFeed
    /\ rpc' = "returned"
    /\ UNCHANGED <<currentDay, sf_token, tokenKind, idx, csmEmailFeed, ranged,
                   emails, queries, retErr>>
    /\ UNCHANGED <<feeds, fetchVars>>

\* main prints the error, if any, and goes on to the fetch phase
ReminderReturns ==
    /\ rpc = "returned"
    /\ rpc' = "fetch"
    /\ UNCHANGED <<currentDay, sf_token, tokenKind, idx, csmEmailFeed, ranged,
                   emails, queries, retErr>>
    /\ UNCHANGED <<feeds, fetchVars>>

GrouperNext ==
    \/ CheckDay
    \/ AcquireToken
    \/ ProcessFeed
    \/ SendNext
    \/ SendEnd
    \/ ReminderReturns

GrouperSpec == GrouperInit /\ [][GrouperNext]_vars

\* ------------------------------------------------------------------ claims
DigitValue(c) == CHOOSE d \in 0..9 : DigitChars[d + 1] = c

RECURSIVE Atoi(_)
\* the number a decimal text denotes
Atoi(s) ==
    IF s = << >> THEN 0
    ELSE 10 * Atoi(SubSeq(s, 1, Len(s) - 1)) + DigitValue(s[Len(s)])

\* a field that is no decimal numeral marks an unknown count
IsUnknownMarker(s) == s = << >> \/ \E c \in Range(s) : c \notin Range(DigitChars)

Got2xx(u) == last[u] \in {"ok", "undecodable"}

Terminated(u) == gpc[u] \in {"done", "panicked"}

\* the goroutine left its loop after ten failed attempts
Exhausted(u) == gpc[u] = "done" /\ sent[u] = 0

Pos(s, x) == CHOOSE k \in 1..Len(s) : s[k] = x

\* C1: every feed gets at most 10 requests, and after an attempt that came
\* back without transport error and with a 2xx status no further request is
\* issued for that feed.
C1_AtMostTenStopOn2xx ==
    /\ [](\A u \in Units : requests[u] <= 10)
    /\ [][\A u \in Units : Got2xx(u) => requests'[u] = requests[u]]_vars

\* a feed that succeeded on its third attempt next to one that used all ten,
\* with the run carried through to the report
C1_Witness ==
    /\ pc = "done"
    /\ \E u, v \in Units :
          /\ last[u] = "ok" /\ requests[u] = 3 /\ gpc[u] = "done"
          /\ requests[v] = 10

\* C2: a feed whose every attempt failed has made exactly 10 attempts and has
\* yielded an outcome for that feed to the Aggregator (the only path to the
\* Aggregator is a send on magDataCh).
C2_ExhaustionYieldsUnknown ==
    \A u \in Units :
        (gpc[u] = "done" /\ last[u] = "fail")
            => requests[u] = 10 /\ sent[u] >= 1

\* C3: in the finished report every magazine whose fetch exhausted its retries
\* has a row, and that row carries an unknown marker instead of a count.
C3_ExhaustedReportedUnknown ==
    pc = "done" =>
        \A u \in Units :
            Exhausted(u) =>
                \E k \in 1..Len(rows) :
                    /\ rows[k].magazine = feeds[u].FeedName
                    /\ IsUnknownMarker(rows[k].articles)

\* C4: a failure confined to some feeds never ends the run: the process is
\* never terminated by a fetch goroutine.
C4_PartialFailureNeverAborts ==
    exitCause # "fetch panic"

\* C5: after a 2xx response whose body failed to decode, no further request
\* is issued for that feed.
C5_NoRetryAfterDecodeFailure ==
    [][\A u \in Units :
          last[u] = "undecodable" => requests'[u] = requests[u]]_vars

\* a decode failure on a feed's second attempt while another feed is still
\* in its retry loop
C5_Witness ==
    \E u, v \in Units :
        /\ last[u] = "undecodable" /\ requests[u] = 2
        /\ gpc[v] = "run" /\ requests[v] >= 3

\* C6: the channel is closed and the map written only when every fetch
\* goroutine has terminated.
C6_AggregationAfterBarrier ==
    (chClosed \/ allMagData # EmptyMap \/ pc \in {"gather", "keys", "csv", "done"})
        => \A u \in Units : Terminated(u)

\* the map being written from a channel two goroutines have filled
C6_Witness ==
    /\ pc = "gather" /\ count >= 2
    /\ allMagData # EmptyMap /\ Len(magDataCh) > 0
    /\ \A u \in Units : sent[u] = 1

\* C7: the channel never holds more results than there are feeds and no
\* fetch goroutine is ever blocked on its send.
C7_NoProducerBlocks ==
    /\ Len(magDataCh) <= count
    /\ \A u \in Units : gpc[u] # "blocked"

\* every goroutine has sent and nothing has been received yet
C7_Witness ==
    /\ count >= 2 /\ Len(magDataCh) = count
    /\ ~chClosed /\ pc = "wait"

\* C8: the finished report has exactly one row for each distinct magazine of
\* the input feed list, no magazine missing and none twice (stated for the
\* runs in which no fetch goroutine panicked; C4 is about the others).
C8_OneRowPerMagazine ==
    (pc = "done" /\ \A u \in Units : gpc[u] # "panicked") =>
        /\ {rows[k].magazine : k \in 1..Len(rows)}
              = {feeds[u].FeedName : u \in Units}
        /\ \A a, b \in 1..Len(rows) :
              rows[a].magazine = rows[b].magazine => a = b

\* C9: adjacent report rows are in non-decreasing order of article count.
C9_RowsSortedByCount ==
    pc = "done" =>
        \A k \in 1..(Len(rows) - 1) :
            Atoi(rows[k].articles) <= Atoi(rows[k + 1].articles)

\* two magazines with 12 and 7 articles, gathered and ranged in that order
C9_Witness ==
    /\ pc = "done" /\ Len(rows) = 2
    /\ rows[1].articles = <<"7">> /\ rows[2].articles = <<"1", "2">>
    /\ firstIns = <<rows[2].magazine, rows[1].magazine>>

\* C10: rows with equal article counts are in the order in which their
\* magazines were first inserted into the aggregation map.
C10_TiesInFirstInsertionOrder ==
    pc = "done" =>
        \A a, b \in 1..Len(rows) :
            (a < b /\ rows[a].articles = rows[b].articles)
                => Pos(firstIns, rows[a].magazine)
                       < Pos(firstIns, rows[b].magazine)

MaxOf(S) == CHOOSE x \in S : \A y \in S : y <= x

\* the count of the value for magazine m that arrived last on the channel
LastArrived(m) ==
    arrived[MaxOf({k \in 1..Len(arrived) : arrived[k].data.Magazine = m})]
        .data.IngestedArticles

\* C11: the count reported for a magazine is the count of the result for that
\* magazine that arrived last on the channel: earlier results are
\* overwritten, not summed.
C11_LastArrivalWins ==
    pc = "done" =>
        \A k \in 1..Len(rows) :
            Atoi(rows[k].articles) = LastArrived(rows[k].magazine)

\* two feeds of one magazine, 12 rows arriving before 7 rows, 7 reported
C11_Witness ==
    /\ pc = "done" /\ Len(arrived) = 2 /\ Len(rows) = 1
    /\ arrived[1].data.Magazine = arrived[2].data.Magazine
    /\ arrived[1].data.IngestedArticles = 12
    /\ arrived[2].data.IngestedArticles = 7
    /\ rows[1].articles = <<"7">>

\* C17: a fetch goroutine has put a result on the channel exactly when one of
\* its attempts got a decodable 2xx response, and every result on the channel
\* carries its sender's magazine and the row count of that sender's first
\* such response.
C17_CountFromFirstSuccess ==
    /\ \A u \in Units : (sent[u] >= 1) <=> (firstOk[u] # NoRows)
    /\ \A k \in 1..Len(arrived) :
          /\ arrived[k].data.IngestedArticles = firstOk[arrived[k].unit]
          /\ arrived[k].data.Magazine = feeds[arrived[k].unit].FeedName

\* a feed that got 12 rows on its third attempt after two failures, next to
\* a feed that never succeeded and sent nothing
C17_Witness ==
    \E u, v \in Units :
        /\ requests[u] = 3 /\ firstOk[u] = 12 /\ sent[u] = 1
        /\ \E k \in 1..Len(arrived) :
              arrived[k].unit = u /\ arrived[k].data.IngestedArticles = 12
        /\ gpc[v] = "done" /\ requests[v] = 10 /\ sent[v] = 0

\* C18: the run eventually reaches aggregation (the barrier is released and
\* the gather loop entered) for every feed list and every interleaving.
C18_EventuallyAggregates ==
    <>(pc \in {"gather", "keys", "csv", "done"})

\* C19: each fetch goroutine sends at most one result, and none ever reaches
\* its send after the channel was closed (such a send panics).
C19_OneSendNoneAfterClose ==
    /\ \A u \in Units : sent[u] <= 1
    /\ \A u \in Units : ~(last[u] = "ok" /\ gpc[u] = "panicked")
    /\ chClosed => \A u \in Units : gpc[u] # "run"

\* the channel closed after one goroutine sent and the other gave up
C19_Witness ==
    /\ chClosed /\ count >= 2
    /\ \E u, v \in Units :
          /\ sent[u] = 1 /\ gpc[u] = "done"
          /\ sent[v] = 0 /\ gpc[v] = "done"

\* the query answered with exactly one record
OneRecord(q) == q.res.err = FALSE /\ q.res.TotalSize = 1

\* the query answered with no record or with several
NoneOrMany(q) == q.res.err = FALSE /\ q.res.TotalSize # 1

\* the body names exactly the feeds of the group, in their order
Lists(body, group) ==
    /\ Len(body) = Len(group)
    /\ \A k \in 1..Len(group) :
          /\ body[k].FeedName = group[k].FeedName
          /\ body[k].Publisher = group[k].Publisher
          /\ body[k].FeedUrl = group[k].FeedUrl

\* the feed entry is named in some notification
Notified(f) ==
    \E n \in 1..Len(emails) :
        \E k \in 1..Len(emails[n].body) : emails[n].body[k].FeedUrl = f.FeedUrl

\* the feed entry is in some owner's group
Grouped(f) ==
    \E e \in DOMAIN csmEmailFeed : f \in Range(csmEmailFeed[e])

\* the loop over the feeds ran to its end
AllProcessed == idx > count

\* C12: every paused feed whose query returned exactly one record is in that
\* record's owner's group, and a notification to an owner names every feed
\* that resolved to that owner.
C12_ResolvedFeedsGroupedTogether ==
    /\ \A n \in 1..Len(queries) :
          OneRecord(queries[n]) =>
              /\ queries[n].res.Records[1].Email \in DOMAIN csmEmailFeed
              /\ feeds[queries[n].feed]
                    \in Range(csmEmailFeed[queries[n].res.Records[1].Email])
    /\ \A m \in 1..Len(emails) :
          \A n \in 1..Len(queries) :
              (OneRecord(queries[n])
                 /\ queries[n].res.Records[1].Email = emails[m].to)
                  => \E k \in 1..Len(emails[m].body) :
                        emails[m].body[k].FeedUrl
                            = feeds[queries[n].feed].FeedUrl

\* two paused feeds resolved to one owner and delivered in one notification
C12_Witness ==
    /\ Len(queries) = 2 /\ Len(emails) = 1
    /\ OneRecord(queries[1]) /\ OneRecord(queries[2])
    /\ queries[1].res.Records[1].Email = queries[2].res.Records[1].Email
    /\ Len(emails[1].body) = 2

\* C13: a paused feed whose query returned zero records or more than one is
\* in no owner group and in no notification, and the step that got that
\* answer moves on to the next feed instead of returning.
C13_UnresolvedFeedsSkipped ==
    /\ [](\A n \in 1..Len(queries) :
            NoneOrMany(queries[n]) =>
                /\ ~Grouped(feeds[queries[n].feed])
                /\ ~Notified(feeds[queries[n].feed]))
    /\ [][(Len(queries') = Len(queries) + 1
             /\ NoneOrMany(queries'[Len(queries')]))
            => (idx' = idx + 1 /\ rpc' \in {"loop", "send"} /\ retErr' = retErr)]_vars

\* a feed answered with two records is passed over and the next feed is
\* resolved and notified
C13_Witness ==
    /\ Len(queries) = 2 /\ Len(emails) = 1
    /\ queries[1].res.TotalSize = 2 /\ OneRecord(queries[2])
    /\ emails[1].body[1].FeedUrl = feeds[queries[2].feed].FeedUrl

\* C14: a paused feed of publisher "The New York Times" is queried under
\* "The New York Times", every other paused feed under its own name.
C14_NewYorkTimesOverride ==
    \A n \in 1..Len(queries) :
        queries[n].magazine =
            IF feeds[queries[n].feed].Publisher = "The New York Times"
            THEN "The New York Times"
            ELSE feeds[queries[n].feed].FeedName

\* a New York Times feed named "A" queried next to another publisher's feed
C14_Witness ==
    /\ Len(queries) = 2
    /\ feeds[queries[1].feed].Publisher = "The New York Times"
    /\ feeds[queries[1].feed].FeedName = "A"
    /\ queries[1].magazine = "The New York Times"
    /\ feeds[queries[2].feed].Publisher # "The New York Times"
    /\ queries[2].magazine = feeds[queries[2].feed].FeedName

C16_TokenFailureIsFatal ==
    tokenKind = "fail" =>
        /\ queries = << >>
        /\ emails = << >>
        /\ rpc # "fetch"

\* C20: only paused feeds are queried; every feed in a group is a paused
\* feed of the input whose query returned exactly one record, that of the
\* group's owner; no feed entry is in two groups or twice in one.
C20_GroupsHoldResolvedPausedFeeds ==
    /\ \A n \in 1..Len(queries) : feeds[queries[n].feed].PauseIngestion
    /\ \A e \in DOMAIN csmEmailFeed :
          \A k \in 1..Len(csmEmailFeed[e]) :
              /\ csmEmailFeed[e][k] \in Range(feeds)
              /\ csmEmailFeed[e][k].PauseIngestion
              /\ \E n \in 1..Len(queries) :
                    /\ feeds[queries[n].feed] = csmEmailFeed[e][k]
                    /\ OneRecord(queries[n])
                    /\ queries[n].res.Records[1].Email = e
    /\ \A e, g \in DOMAIN csmEmailFeed :
          \A k \in 1..Len(csmEmailFeed[e]), l \in 1..Len(csmEmailFeed[g]) :
              csmEmailFeed[e][k] = csmEmailFeed[g][l] => (e = g /\ k = l)

\* a list with a feed that is not paused and a paused one: only the paused
\* one was queried and grouped
C20_Witness ==
    /\ AllProcessed /\ count = 2
    /\ \E u \in Units : ~feeds[u].PauseIngestion
    /\ Len(queries) = 1
    /\ Cardinality(DOMAIN csmEmailFeed) = 1
====
